---- MODULE Spec2Model ----
(***************************************************************************)
(* Voice session controller of the RobertoAI widget (src/RobertoAI.tsx).   *)
(* Strings are sequences of tokens: a token is a word, a blank " " or a   *)
(* fixed piece of text the code concatenates.  The relay backend           *)
(* (src/unnamed/part_000) has its own variables and specification.         *)
(***************************************************************************)
EXTENDS Integers, Sequences, FiniteSets, TLC

\* ---------------------------------------------------------------- bounds
MaxResults == 2      \* recognition result events delivered in one run
MaxSessions == 2     \* listening sessions started in one run
MaxChat == 2         \* POST /api/chat requests received in one run
MaxHealth == 1       \* GET /api/health requests received in one run
MaxConfig == 1       \* re-runs of the initialization effect in one run

\* ------------------------------------------------------- text constants
NoRecognition == "null"
Recognition == "recognition"

ListeningText == <<"Listening...">>
AIPrefix == <<"\n\n", "AI: ">>
FallbackText == <<"I couldn't process that request.">>
SorryPrefix == "Sorry, I'm having trouble connecting to the AI service. Error: "
StatusPrefix == "API returned status "
FetchFailedMsg == <<"Failed to fetch">>
JsonSyntaxMsg == <<"Unexpected token in JSON">>
NullBodyMsg == <<"Cannot read properties of null">>

\* texts of one recognized segment: empty, whitespace-only, a word
SegTexts == {<< >>, <<" ">>, <<"hello">>}
\* texts the provider may put in the response field
ProviderTexts == {<<"Hi there">>}
HttpScheme == "http://"
HttpsScheme == "https://"
DefaultEndpoint == <<HttpScheme, "localhost:3000/api/chat">>
\* configured endpoints: the default, a secure one, a bare host
Endpoints ==
  {DefaultEndpoint, <<HttpsScheme, "example.com/api/chat">>,
   <<"example.com/api/chat">>}
Statuses == {200, 500}

VARIABLES
  recognitionRef,      \* recognitionRef.current
  isListening,         \* useState isListening
  isProcessing,        \* useState isProcessing
  responseText,        \* useState responseText
  recognitionActive,   \* recognitionActive.current
  requestInFlightRef,  \* requestInFlightRef.current
  stream,              \* platform state of the recognition object
  finalsText,          \* joined transcript of the finalized event.results
  nResults,            \* result events delivered so far
  session,             \* number of listening sessions started
  requests,            \* relay calls awaiting their fetch
  fetchCount,          \* network requests issued
  spoken,              \* texts passed to speakResponse, in order
  uncaught,            \* handlers an exception escaped from
  console,             \* kinds of console.error output so far
  mounted,             \* the component is mounted
  synthQueue,          \* utterances playing or queued in speechSynthesis
  stopCalls,           \* stop() invocations on the recognition held since
                       \* its last start()
  apiEndpoint,         \* the apiEndpoint prop of the component
  nConfig,             \* re-runs of the initialization effect so far
  oldStream,           \* platform state of the recognition replaced last
  apiKeySet,           \* process.env.OPENAI_API_KEY is set
  server,              \* backend process: "init", "serving" or "exited"
  nChat,               \* POST /api/chat requests received
  chatPending,         \* ids of chat requests awaiting the upstream fetch
  upstreamCalls,       \* ids of the chat requests forwarded upstream, in order
  replies,             \* responses sent to chat requests, in order
  healthReplies,       \* bodies sent to GET /api/health, in order
  crashed              \* an exception escaped a route handler

vars == <<recognitionRef, isListening, isProcessing, responseText,
          recognitionActive, requestInFlightRef, stream, finalsText,
          nResults, session, requests, fetchCount, spoken, uncaught, console,
          mounted, synthQueue, stopCalls, apiEndpoint, nConfig, oldStream,
          apiKeySet, server, nChat, chatPending, upstreamCalls, replies,
          healthReplies, crashed>>

relay == <<apiKeySet, server, nChat, chatPending, upstreamCalls, replies,
           healthReplies, crashed>>

widget == <<recognitionRef, isListening, isProcessing, responseText,
            recognitionActive, requestInFlightRef, stream, finalsText,
            nResults, session, requests, fetchCount, spoken, uncaught, console,
            mounted, synthQueue, stopCalls, apiEndpoint, nConfig,
            oldStream>>

\* what only a re-run of the initialization effect changes
config == <<apiEndpoint, nConfig, oldStream>>

\* ------------------------------------------------------------- helpers
RECURSIVE TrimStart(_)
TrimStart(s) ==
  IF s # << >> /\ Head(s) = " " THEN TrimStart(Tail(s)) ELSE s

RECURSIVE TrimEnd(_)
TrimEnd(s) ==
  IF s # << >> /\ s[Len(s)] = " " THEN TrimEnd(SubSeq(s, 1, Len(s) - 1)) ELSE s

Trim(s) == TrimEnd(TrimStart(s))

\* the guard without trim(): only the empty string short-circuits
ShortCircuits_NoTrim(text) == text = << >>

ShortCircuits(text) == Trim(text) = << >>

Ok(status) == status >= 200 /\ status <= 299

\* what the transport delivers for one fetch
Outcomes ==
  [kind : {"neterr"}, status : {0}, body : {"none"},
   hasResponse : {FALSE}, response : {<< >>}]
  \cup
  [kind : {"http"}, status : Statuses, body : {"unparsable", "null"},
   hasResponse : {FALSE}, response : {<< >>}]
  \cup
  [kind : {"http"}, status : Statuses, body : {"object"},
   hasResponse : {FALSE}, response : {<< >>}]
  \cup
  [kind : {"http"}, status : Statuses, body : {"object"},
   hasResponse : {TRUE}, response : ProviderTexts \cup {<< >>}]

Returned(v) == [threw |-> FALSE, value |-> v]
Thrown(m) == [threw |-> TRUE, value |-> m]

\* the error message without the status code
StatusError_NoCode(status) == <<StatusPrefix>>

StatusError(status) == <<StatusPrefix, ToString(status)>>

\* the response field is never read
ResponseOrFallback_WrongField(o) == FallbackText

ResponseOrFallback(o) ==
  IF o.hasResponse /\ o.response # << >> THEN o.response ELSE FallbackText

\* the try block of getAIResponse once fetch settles
TryBody(o) ==
  IF o.kind = "neterr" THEN Thrown(FetchFailedMsg)
  ELSE IF ~Ok(o.status) THEN Thrown(StatusError(o.status))
  ELSE IF o.body = "unparsable" THEN Thrown(JsonSyntaxMsg)
  ELSE IF o.body = "null" THEN Thrown(NullBodyMsg)
  ELSE Returned(ResponseOrFallback(o))

Apology(msg) == <<SorryPrefix>> \o msg

\* getAIResponse without its catch block
GetAIResponse_NoCatch(o) == TryBody(o)

GetAIResponse(o) ==
  LET a == TryBody(o)
  IN  IF a.threw THEN Returned(Apology(a.value)) ELSE a

\* window.speechSynthesis.cancel()
CancelSpeech(queue) == << >>

\* speakResponse without the cancel() call
SpeakResponse_NoCancel(queue, text) == Append(queue, text)

\* speakResponse: cancel, then speak one new utterance
SpeakResponse(queue, text) == Append(CancelSpeech(queue), text)

\* line 114: a result is processed when it is final and no request is
\* in flight
AcceptsFinal_IgnoresIsFinal(final, inFlight) == ~inFlight

AcceptsFinal(final, inFlight) == final /\ ~inFlight

\* String.prototype.startsWith on a text whose scheme, if any, is one token
StartsWith(s, tok) == s # << >> /\ s[1] = tok

\* the endpoint getAIResponse passes to fetch
NormalizeEndpoint(endpoint) ==
  IF ~StartsWith(endpoint, HttpScheme) /\ ~StartsWith(endpoint, HttpsScheme)
  THEN <<HttpsScheme>> \o endpoint
  ELSE endpoint

\* finally of getAIResponse that runs only when the try block returned
AfterFinally_OnlyOnSuccess(processing, o) ==
  IF TryBody(o).threw THEN processing ELSE FALSE

\* isProcessing after the finally block of getAIResponse
AfterFinally(processing, o) == FALSE

\* functional update that drops the text shown so far
AppendReply_Replaces(prev, aiResponse) == AIPrefix \o aiResponse

\* the functional update of responseText after the relay call
AppendReply(prev, aiResponse) == prev \o AIPrefix \o aiResponse

SessionState ==
  IF isProcessing THEN "processing"
  ELSE IF isListening THEN "listening"
  ELSE "idle"

\* --------------------------------------------------------------- Init
\* the backend before its process is started
RelayIdle ==
  /\ server = "init"
  /\ nChat = 0
  /\ chatPending = {}
  /\ upstreamCalls = << >>
  /\ replies = << >>
  /\ healthReplies = << >>
  /\ crashed = FALSE

\* the component right after its first render and its effects
InitialWidget ==
  /\ isListening = FALSE
  /\ isProcessing = FALSE
  /\ responseText = << >>
  /\ recognitionActive = FALSE
  /\ requestInFlightRef = FALSE
  /\ stream = "inactive"
  /\ finalsText = << >>
  /\ nResults = 0
  /\ session = 0
  /\ requests = {}
  /\ fetchCount = 0
  /\ spoken = << >>
  /\ uncaught = {}
  /\ console = {}
  /\ mounted = TRUE
  /\ synthQueue = << >>
  /\ stopCalls = 0
  /\ nConfig = 0
  /\ oldStream = "inactive"

Init ==
  /\ apiKeySet = TRUE
  /\ RelayIdle
  /\ recognitionRef \in {NoRecognition, Recognition}
  /\ apiEndpoint = DefaultEndpoint
  /\ InitialWidget

\* ------------------------------------------------------------ actions
\* recognition.stop() as the platform performs it
StopStream == IF stream = "capturing" THEN "stopping" ELSE stream

StopListening ==
  /\ UNCHANGED relay
  /\ UNCHANGED config
  /\ stream' = StopStream
  /\ recognitionActive' = FALSE
  /\ isListening' = FALSE
  /\ stopCalls' = stopCalls + 1
  /\ UNCHANGED <<recognitionRef, isProcessing, responseText, requestInFlightRef,
                 finalsText, nResults, session, requests, fetchCount, spoken,
                 uncaught, console, mounted, synthQueue>>

StartListening ==
  /\ UNCHANGED relay
  /\ UNCHANGED config
  /\ session < MaxSessions
  /\ requestInFlightRef' = FALSE
  /\ responseText' = ListeningText
  /\ IF stream = "inactive"
     THEN /\ stream' = "capturing"
          /\ finalsText' = << >>
          /\ recognitionActive' = TRUE
          /\ isListening' = TRUE
          /\ session' = session + 1
          /\ stopCalls' = 0
          /\ UNCHANGED uncaught
     ELSE \* start() on a started recognition throws InvalidStateError
          /\ uncaught' = uncaught \cup {"toggleListening"}
          /\ UNCHANGED <<stream, finalsText, recognitionActive, isListening,
                         session, stopCalls>>
  /\ UNCHANGED <<recognitionRef, isProcessing, nResults, requests, fetchCount,
                 spoken, console, mounted, synthQueue>>

toggleListening ==
  IF recognitionRef = NoRecognition
  THEN /\ console' = console \cup {"unsupported"}
       /\ UNCHANGED relay
  /\ UNCHANGED config
       /\ UNCHANGED <<recognitionRef, isListening, isProcessing, responseText,
                      recognitionActive, requestInFlightRef, stream, finalsText,
                      nResults, session, requests, fetchCount, spoken, uncaught,
                      mounted, synthQueue, stopCalls>>
  ELSE IF isListening THEN StopListening ELSE StartListening

\* click on the microphone button (disabled while processing)
ClickButton ==
  /\ mounted
  /\ ~isProcessing
  /\ toggleListening

\* Space bar on document.body
handleKeyDown ==
  /\ mounted
  /\ toggleListening

\* closeOverlay calling stop() whether or not the session is listening
closeOverlay_AlwaysStops ==
  /\ UNCHANGED relay
  /\ UNCHANGED config
  /\ mounted
  /\ IF recognitionRef # NoRecognition
     THEN /\ stream' = StopStream
          /\ recognitionActive' = FALSE
          /\ stopCalls' = stopCalls + 1
     ELSE UNCHANGED <<stream, recognitionActive, stopCalls>>
  /\ isListening' = FALSE
  /\ UNCHANGED <<recognitionRef, isProcessing, responseText, requestInFlightRef,
                 finalsText, nResults, session, requests, fetchCount, spoken,
                 uncaught, console, mounted, synthQueue>>

closeOverlay ==
  /\ UNCHANGED relay
  /\ UNCHANGED config
  /\ mounted
  /\ IF isListening /\ recognitionRef # NoRecognition
     THEN /\ stream' = StopStream
          /\ recognitionActive' = FALSE
          /\ stopCalls' = stopCalls + 1
     ELSE UNCHANGED <<stream, recognitionActive, stopCalls>>
  /\ isListening' = FALSE
  /\ UNCHANGED <<recognitionRef, isProcessing, responseText, requestInFlightRef,
                 finalsText, nResults, session, requests, fetchCount, spoken,
                 uncaught, console, mounted, synthQueue>>

\* recognition.onresult with a last segment seg, final or interim
onresult(seg, final) ==
  /\ UNCHANGED relay
  /\ UNCHANGED config
  /\ stream \in {"capturing", "stopping"}
  /\ stream = "stopping" => final
  /\ nResults < MaxResults
  /\ nResults' = nResults + 1
  /\ stream' = IF stream = "stopping" THEN "inactive" ELSE stream
  /\ LET transcript == finalsText \o seg
     IN  /\ finalsText' = IF final THEN transcript ELSE finalsText
         /\ IF AcceptsFinal(final, requestInFlightRef)
            THEN IF ShortCircuits(transcript)
                 THEN \* getAIResponse resolves to "" without a request
                      /\ responseText' = AppendReply(transcript, << >>)
                      /\ spoken' = Append(spoken, << >>)
                      /\ synthQueue' = SpeakResponse(synthQueue, << >>)
                      /\ requestInFlightRef' = FALSE
                      /\ UNCHANGED <<isProcessing, requests, fetchCount>>
                 ELSE /\ responseText' = transcript
                      /\ requestInFlightRef' = TRUE
                      /\ isProcessing' = TRUE
                      /\ fetchCount' = fetchCount + 1
                      /\ requests' = requests \cup
                           {[id |-> fetchCount + 1, session |-> session,
                             text |-> transcript,
                             url |-> NormalizeEndpoint(apiEndpoint)]}
                      /\ UNCHANGED <<spoken, synthQueue>>
            ELSE /\ responseText' = transcript
                 /\ UNCHANGED <<requestInFlightRef, isProcessing, requests,
                                fetchCount, spoken, synthQueue>>
  /\ UNCHANGED <<recognitionRef, isListening, recognitionActive, session,
                 uncaught, console, mounted, stopCalls>>

\* the fetch of relay call r settles with outcome o; the rest of
\* getAIResponse and of onresult runs
Complete(r, o) ==
  /\ UNCHANGED relay
  /\ UNCHANGED config
  /\ r \in requests
  /\ requests' = requests \ {r}
  /\ isProcessing' = AfterFinally(isProcessing, o)
  /\ requestInFlightRef' = FALSE
  /\ console' = IF TryBody(o).threw THEN console \cup {"api"} ELSE console
  /\ LET res == GetAIResponse(o)
     IN  IF res.threw
         THEN /\ uncaught' = uncaught \cup {"onresult"}
              /\ UNCHANGED <<responseText, spoken, synthQueue>>
         ELSE /\ responseText' = AppendReply(responseText, res.value)
              /\ spoken' = Append(spoken, res.value)
              /\ synthQueue' = SpeakResponse(synthQueue, res.value)
              /\ UNCHANGED uncaught
  /\ UNCHANGED <<recognitionRef, isListening, recognitionActive, stream,
                 finalsText, nResults, session, fetchCount, mounted, stopCalls>>

onerror ==
  /\ UNCHANGED relay
  /\ UNCHANGED config
  /\ stream \in {"capturing", "stopping"}
  /\ stream' = "inactive"
  /\ console' = console \cup {"recognition"}
  /\ isListening' = FALSE
  /\ isProcessing' = FALSE
  /\ UNCHANGED <<recognitionRef, responseText, recognitionActive,
                 requestInFlightRef, finalsText, nResults, session, requests,
                 fetchCount, spoken, uncaught, mounted, synthQueue, stopCalls>>

\* the platform ends a stopped recognition without a further result
RecognitionEnd ==
  /\ UNCHANGED relay
  /\ UNCHANGED config
  /\ stream = "stopping"
  /\ stream' = "inactive"
  /\ UNCHANGED <<recognitionRef, isListening, isProcessing, responseText,
                 recognitionActive, requestInFlightRef, finalsText, nResults,
                 session, requests, fetchCount, spoken, uncaught, console,
                 mounted, synthQueue, stopCalls>>

\* the cleanup of the recognition effect without its stop() call
Unmount_NoStop ==
  /\ UNCHANGED relay
  /\ UNCHANGED config
  /\ mounted
  /\ mounted' = FALSE
  /\ UNCHANGED <<recognitionRef, isListening, isProcessing, responseText,
                 recognitionActive, requestInFlightRef, stream, finalsText,
                 nResults, session, requests, fetchCount, spoken, uncaught,
                 console, synthQueue, stopCalls>>

\* the component unmounts: the cleanup of the recognition effect runs and
\* the keydown listener is removed
Unmount ==
  /\ UNCHANGED relay
  /\ UNCHANGED config
  /\ mounted
  /\ mounted' = FALSE
  /\ IF recognitionRef # NoRecognition
     THEN /\ stream' = StopStream
          /\ stopCalls' = stopCalls + 1
     ELSE UNCHANGED <<stream, stopCalls>>
  /\ UNCHANGED <<recognitionRef, isListening, isProcessing, responseText,
                 recognitionActive, requestInFlightRef, finalsText, nResults,
                 session, requests, fetchCount, spoken, uncaught, console,
                 synthQueue>>

Next ==
  \/ ClickButton
  \/ handleKeyDown
  \/ closeOverlay
  \/ \E seg \in SegTexts, final \in BOOLEAN : onresult(seg, final)
  \/ \E r \in requests, o \in Outcomes : Complete(r, o)
  \/ onerror
  \/ RecognitionEnd
  \/ Unmount

Spec == Init /\ [][Next]_vars

TypeOK ==
  /\ recognitionRef \in {NoRecognition, Recognition}
  /\ isListening \in BOOLEAN
  /\ isProcessing \in BOOLEAN
  /\ recognitionActive \in BOOLEAN
  /\ requestInFlightRef \in BOOLEAN
  /\ stream \in {"inactive", "capturing", "stopping"}
  /\ nResults \in 0..MaxResults
  /\ session \in 0..MaxSessions
  /\ fetchCount \in 0..MaxResults
  /\ uncaught \subseteq {"toggleListening", "onresult"}
  /\ console \subseteq {"unsupported", "recognition", "api"}
  /\ mounted \in BOOLEAN
  /\ Len(synthQueue) <= 1
  /\ stopCalls \in 0..2
  /\ nConfig \in 0..MaxConfig
  /\ oldStream \in {"inactive", "capturing", "stopping"}
  /\ apiEndpoint \in Endpoints

\* ======================================================= relay backend
Absent == "undefined"
\* the message field of a request body: absent, empty or a text
ChatMessages == {Absent, << >>, <<"hello">>}
UpstreamStatuses == {200, 429}
ContentTexts == {<<"Hi there">>}

MessageRequiredText == <<"Message is required">>
UpstreamFailedText == <<"Failed to get response from OpenAI">>
InternalErrorText == <<"Internal server error">>
RelayFallbackText == <<"I couldn't process that request.">>
HealthMessage == "Roberto AI server is running"

\* what the upstream fetch delivers
UpstreamOutcomes ==
  [kind : {"neterr"}, status : {0}, body : {"none"},
   hasContent : {FALSE}, content : {<< >>}]
  \cup
  [kind : {"http"}, status : UpstreamStatuses, body : {"unparsable", "null"},
   hasContent : {FALSE}, content : {<< >>}]
  \cup
  [kind : {"http"}, status : UpstreamStatuses, body : {"object"},
   hasContent : {FALSE}, content : {<< >>}]
  \cup
  [kind : {"http"}, status : UpstreamStatuses, body : {"object"},
   hasContent : {TRUE}, content : ContentTexts \cup {<< >>}]

Reply(status, kind, text) == [status |-> status, kind |-> kind, text |-> text]

\* the check that only rejects an undefined message
MessageMissing_OnlyUndefined(m) == m = Absent

\* !message
MessageMissing(m) == m = Absent \/ m = << >>

ContentOrFallback(o) ==
  IF o.hasContent /\ o.content # << >> THEN o.content ELSE RelayFallbackText

\* the try block of the chat handler once the upstream fetch settles
RelayTry(o) ==
  IF o.kind = "neterr" THEN Thrown(FetchFailedMsg)
  ELSE IF ~Ok(o.status)
       THEN IF o.body = "unparsable" THEN Thrown(JsonSyntaxMsg)
            ELSE Returned(Reply(o.status, "error", UpstreamFailedText))
  ELSE IF o.body = "unparsable" THEN Thrown(JsonSyntaxMsg)
  ELSE IF o.body = "null" THEN Thrown(NullBodyMsg)
  ELSE Returned(Reply(200, "response", ContentOrFallback(o)))

\* the chat handler without its catch block
RelayHandle_NoCatch(o) == RelayTry(o)

RelayHandle(o) ==
  LET a == RelayTry(o)
  IN  IF a.threw THEN Returned(Reply(500, "error", InternalErrorText)) ELSE a

\* a health handler that reports failed chat requests
HealthBody_ChecksChat(sent) ==
  [status |-> IF \E i \in 1..Len(sent) : sent[i].status >= 500
              THEN "error" ELSE "ok",
   message |-> HealthMessage]

\* the body of GET /api/health; sent are the chat responses so far
HealthBody(sent) == [status |-> "ok", message |-> HealthMessage]

RelayInit ==
  /\ apiKeySet \in BOOLEAN
  /\ RelayIdle
  /\ recognitionRef = NoRecognition
  /\ apiEndpoint = DefaultEndpoint
  /\ InitialWidget

\* startup that goes on to listen without the key check
Boot_NoKeyCheck ==
  /\ server = "init"
  /\ server' = "serving"
  /\ UNCHANGED <<apiKeySet, nChat, chatPending, upstreamCalls, replies,
                 healthReplies, crashed>>
  /\ UNCHANGED widget

\* module start: exit(1) without the key, else app.listen
Boot ==
  /\ server = "init"
  /\ server' = IF apiKeySet THEN "serving" ELSE "exited"
  /\ UNCHANGED <<apiKeySet, nChat, chatPending, upstreamCalls, replies,
                 healthReplies, crashed>>
  /\ UNCHANGED widget

\* POST /api/chat arrives with message m: rejected or forwarded upstream
ChatReceive(m) ==
  /\ server = "serving"
  /\ ~crashed
  /\ nChat < MaxChat
  /\ nChat' = nChat + 1
  /\ IF MessageMissing(m)
     THEN /\ replies' = Append(replies,
                          [id |-> nChat + 1] @@ Reply(400, "error", MessageRequiredText))
          /\ UNCHANGED <<chatPending, upstreamCalls>>
     ELSE /\ chatPending' = chatPending \cup {nChat + 1}
          /\ upstreamCalls' = Append(upstreamCalls, nChat + 1)
          /\ UNCHANGED replies
  /\ UNCHANGED <<apiKeySet, server, healthReplies, crashed>>
  /\ UNCHANGED widget

\* handler that forwards the message again when the upstream fetch rejects
UpstreamSettle_Retries(q, o) ==
  /\ server = "serving"
  /\ ~crashed
  /\ q \in chatPending
  /\ IF o.kind = "neterr" /\ Len(upstreamCalls) <= MaxChat
     THEN /\ upstreamCalls' = Append(upstreamCalls, q)
          /\ UNCHANGED <<chatPending, replies, crashed>>
     ELSE /\ chatPending' = chatPending \ {q}
          /\ replies' = Append(replies, [id |-> q] @@ RelayHandle(o).value)
          /\ UNCHANGED <<upstreamCalls, crashed>>
  /\ UNCHANGED <<apiKeySet, server, nChat, healthReplies>>
  /\ UNCHANGED widget

\* the upstream fetch of chat request q settles with outcome o
UpstreamSettle(q, o) ==
  /\ server = "serving"
  /\ ~crashed
  /\ q \in chatPending
  /\ chatPending' = chatPending \ {q}
  /\ LET res == RelayHandle(o)
     IN  IF res.threw
         THEN /\ crashed' = TRUE
              /\ UNCHANGED replies
         ELSE /\ replies' = Append(replies, [id |-> q] @@ res.value)
              /\ UNCHANGED crashed
  /\ UNCHANGED <<apiKeySet, server, nChat, upstreamCalls, healthReplies>>
  /\ UNCHANGED widget

\* GET /api/health
Health ==
  /\ server = "serving"
  /\ ~crashed
  /\ Len(healthReplies) < MaxHealth
  /\ healthReplies' = Append(healthReplies, HealthBody(replies))
  /\ UNCHANGED <<apiKeySet, server, nChat, chatPending, upstreamCalls, replies,
                 crashed>>
  /\ UNCHANGED widget

RelayNext ==
  \/ Boot
  \/ \E m \in ChatMessages : ChatReceive(m)
  \/ \E q \in chatPending, o \in UpstreamOutcomes : UpstreamSettle(q, o)
  \/ Health

RelaySpec == RelayInit /\ [][RelayNext]_vars

RelayTypeOK ==
  /\ apiKeySet \in BOOLEAN
  /\ server \in {"init", "serving", "exited"}
  /\ nChat \in 0..MaxChat
  /\ chatPending \subseteq 1..nChat
  /\ Len(upstreamCalls) <= nChat
  /\ Len(replies) <= nChat
  /\ Len(healthReplies) <= MaxHealth
  /\ crashed \in BOOLEAN

\* ------------------------------------------------------ claim helpers
Last(s) == s[Len(s)]

EndsWith(s, t) ==
  /\ Len(s) >= Len(t)
  /\ SubSeq(s, Len(s) - Len(t) + 1, Len(s)) = t

Contains(s, tok) == \E i \in 1..Len(s) : s[i] = tok

IsApology(t) == t # << >> /\ t[1] = SorryPrefix

\* a step in which the fetch of a relay call settles
CompletionStep == requests' # requests /\ requests' \subseteq requests

\* a step in which a relay call is started
RequestStep == fetchCount' = fetchCount + 1

\* a step in which a recognition result is delivered
ResultStep == nResults' = nResults + 1

\* a step in which the user stops the session
StopStep ==
  \/ closeOverlay
  \/ recognitionRef = Recognition /\ isListening /\ StopListening

\* ---------------------------------------------------------------- C1
\* C1: in every reachable state at most one relay request started within
\* the same listening session is outstanding.
C1_AtMostOneOutstandingPerSession ==
  \A r1, r2 \in requests : r1.session = r2.session => r1 = r2

\* ---------------------------------------------------------------- C2
\* C2: a final segment that arrives while a relay request of the session
\* is outstanding starts no relay call (it is dropped, not queued).
C2_FinalWhileOutstandingIsDropped ==
  [][(ResultStep /\ \E r \in requests : r.session = session)
       => ~RequestStep]_vars

\* ---------------------------------------------------------------- C3
\* C3: a finalized transcript that is empty or whitespace-only never
\* triggers a relay network call, whatever the session state.
C3_BlankFinalStartsNoRequest ==
  [][\A seg \in SegTexts :
       (ResultStep /\ onresult(seg, TRUE) /\ \A i \in 1..Len(finalsText \o seg) :
                                  (finalsText \o seg)[i] = " ")
         => (fetchCount' = fetchCount /\ requests' = requests)]_vars

\* a whitespace-only final transcript was handled and no request was made
C3_Witness ==
  /\ responseText = <<" ">> \o AIPrefix
  /\ isListening
  /\ fetchCount = 0
  /\ requests = {}

\* ---------------------------------------------------------------- C4
\* C4: for every outcome of the request the relay call resolves to a
\* string, the provider's text or an apology/fallback string; it never
\* throws to its caller.
C4_RelayCallNeverThrows ==
  [][CompletionStep =>
       /\ uncaught' = uncaught
       /\ Len(spoken') = Len(spoken) + 1
       /\ \/ Last(spoken') \in ProviderTexts
          \/ Last(spoken') = FallbackText
          \/ IsApology(Last(spoken'))]_vars

\* a success with an unparsable body was turned into an apology
C4_Witness ==
  /\ spoken # << >>
  /\ Last(spoken) = <<SorryPrefix>> \o JsonSyntaxMsg
  /\ "onresult" \notin uncaught

\* ---------------------------------------------------------------- C5
\* C5: a non-success HTTP status for an accepted final utterance appends an
\* apology containing the status code to the displayed text, speaks the
\* apology, throws nothing, leaves the listening flag as it was and clears
\* the in-flight flag.
C5_ErrorStatusGivesApology ==
  [][\A r \in requests \ requests' : \A o \in Outcomes :
       (CompletionStep /\ o.kind = "http" /\ ~(o.status \in 200..299)
          /\ Complete(r, o))
         => /\ EndsWith(responseText',
                        <<"AI: ", SorryPrefix, StatusPrefix, ToString(o.status)>>)
            /\ Len(spoken') = Len(spoken) + 1
            /\ IsApology(Last(spoken'))
            /\ Contains(Last(spoken'), ToString(o.status))
            /\ uncaught' = uncaught
            /\ isListening' = isListening
            /\ requestInFlightRef' = FALSE]_vars

\* a 500 was handled while the session kept listening
C5_Witness ==
  /\ spoken = << <<SorryPrefix, StatusPrefix, "500">> >>
  /\ EndsWith(responseText, <<"AI: ", SorryPrefix, StatusPrefix, "500">>)
  /\ isListening
  /\ ~requestInFlightRef
  /\ uncaught = {}

\* ---------------------------------------------------------------- C6
\* C6: when the relay call of an accepted final utterance succeeds with a
\* non-empty response R, the displayed text ends with "AI: R" and speech
\* playback is invoked exactly once, with R, also when interim results
\* arrived while the call was outstanding.
C6_SuccessIsShownAndSpokenOnce ==
  [][\A r \in requests \ requests' : \A o \in Outcomes :
       (CompletionStep /\ o.kind = "http" /\ o.status \in 200..299
          /\ o.body = "object" /\ o.hasResponse /\ o.response # << >>
          /\ Complete(r, o))
         => /\ EndsWith(responseText', <<"AI: ">> \o o.response)
            /\ spoken' = Append(spoken, o.response)]_vars

\* "hello" was accepted, an interim "hello" arrived during the call, then
\* the call succeeded with "Hi there"
C6_Witness ==
  /\ responseText = <<"hello", "hello">> \o AIPrefix \o <<"Hi there">>
  /\ spoken = << <<"Hi there">> >>
  /\ fetchCount = 1
  /\ requests = {}

\* ---------------------------------------------------------------- C7
\* C7: a start attempted without speech-recognition capability leaves the
\* session idle, starts no capture and shows the failure to the user.
C7_UnsupportedStartIsSurfaced ==
  "unsupported" \in console
    => /\ SessionState = "idle"
       /\ stream = "inactive"
       /\ responseText # << >>

\* ---------------------------------------------------------------- C8
\* C8: stop() leaves the session idle from any state (neither listening
\* nor processing afterwards) and cancels an in-progress capture.
C8_StopGoesIdle ==
  [][StopStep => (SessionState' = "idle" /\ stream' # "capturing")]_vars

\* ---------------------------------------------------------------- C9
\* C9: the session state changes only along idle->listening,
\* listening->processing, processing->listening, processing->idle or a
\* stop/error transition to idle; never from idle directly to processing.
C9_TransitionOrder ==
  [][\/ SessionState' = SessionState
     \/ SessionState' = "idle"
     \/ SessionState = "idle" /\ SessionState' = "listening"
     \/ SessionState = "listening" /\ SessionState' = "processing"
     \/ SessionState = "processing" /\ SessionState' = "listening"]_vars

\* --------------------------------------------------------------- C10
\* C10: a recognition-stream error forces the session to idle, shows the
\* error in what is displayed, and capture is not restarted by it.
C10_ErrorGoesIdleAndIsShown ==
  [][onerror => /\ SessionState' = "idle"
                /\ stream' # "capturing"
                /\ responseText' # responseText]_vars

\* --------------------------------------------------------------- C11
\* C11: every speech playback first cancels what is playing, so at most
\* one utterance is playing or queued in the synthesizer after any
\* sequence of relay completions.
C11_AtMostOneUtterance == Len(synthQueue) <= 1

\* two playbacks from two sessions, the second issued while the first was
\* still in the synthesizer
C11_Witness ==
  /\ Len(spoken) = 2
  /\ synthQueue = <<spoken[2]>>
  /\ session = 2

\* --------------------------------------------------------------- C12
\* C12: after the component is unmounted no recognition stream started by
\* the widget is still capturing, whatever state the session was in.
C12_TeardownStopsCapture == ~mounted => stream # "capturing"

\* unmounted while the session was listening
C12_Witness ==
  /\ ~mounted
  /\ isListening
  /\ stream = "stopping"

\* --------------------------------------------------------------- C18
\* C18: with speech-recognition capability, start() leaves the transcript
\* buffer without text of an earlier session, the in-flight flag cleared,
\* capture started and the session listening.
C18_StartLeavesListening ==
  [][(recognitionRef = Recognition /\ ~isListening /\ StartListening)
       => /\ responseText' = ListeningText
          /\ ~requestInFlightRef'
          /\ stream' = "capturing"
          /\ isListening']_vars

\* --------------------------------------------------------------- C19
\* C19: stop() while listening leaves the session idle and halts the
\* capture stream exactly once; stop() while already idle leaves it idle
\* and does not invoke the capture stop again.
C19_StopHaltsOnce ==
  [][StopStep =>
       IF isListening
       THEN /\ stopCalls' = 1
            /\ stream' # "capturing"
            /\ ~isListening'
            /\ SessionState = "listening" => SessionState' = "idle"
       ELSE /\ stopCalls' = stopCalls
            /\ ~isListening'
            /\ stream' = stream]_vars

\* a listening session was stopped: one stop() call, session idle
C19_Witness ==
  /\ mounted
  /\ SessionState = "idle"
  /\ session = 1
  /\ stopCalls = 1
  /\ stream = "stopping"

\* --------------------------------------------------------------- C20
\* C20: an interim recognition segment updates the displayed transcript
\* only; session state, in-flight flag, outstanding requests and speech
\* playback stay as they were.
C20_InterimOnlyUpdatesText ==
  [][\A seg \in SegTexts :
       (ResultStep /\ onresult(seg, FALSE))
         => /\ responseText' = finalsText \o seg
            /\ UNCHANGED <<isListening, isProcessing, requestInFlightRef,
                           requests, fetchCount, spoken, synthQueue>>]_vars

\* an interim "hello" arrived while the request for the final "hello" was
\* outstanding
C20_Witness ==
  /\ finalsText = <<"hello">>
  /\ responseText = <<"hello", "hello">>
  /\ requests # {}
  /\ fetchCount = 1
  /\ spoken = << >>
  /\ isProcessing

\* ------------------------------------------------------------ C13
\* a step in which a chat request is received
ChatStep == nChat' = nChat + 1

\* a step in which an upstream fetch settles
SettleStep == chatPending' # chatPending /\ chatPending' \subseteq chatPending

\* the responses sent to chat request q
RepliesTo(q) == {i \in 1..Len(replies) : replies[i].id = q}

\* C13: POST /api/chat with a missing or empty message is answered with
\* status 400 and an {error} body, and nothing is sent upstream.
C13_MissingMessageIs400 ==
  [][\A m \in {Absent, << >>} :
       (ChatStep /\ ChatReceive(m))
         => /\ Len(replies') = Len(replies) + 1
            /\ Last(replies').id = nChat'
            /\ Last(replies').status = 400
            /\ Last(replies').kind = "error"
            /\ Last(replies').text # << >>
            /\ upstreamCalls' = upstreamCalls
            /\ chatPending' = chatPending]_vars

\* an empty message was rejected and nothing went upstream
C13_Witness ==
  /\ nChat = 1
  /\ Len(replies) = 1
  /\ replies[1].status = 400
  /\ upstreamCalls = << >>

\* ------------------------------------------------------------ C14
\* C14: when the upstream answers with a non-success status S the relay
\* responds with status S and an {error} body, whether or not the
\* upstream error body is parsable.
C14_MirrorsUpstreamStatus ==
  [][\A q \in chatPending \ chatPending' : \A o \in UpstreamOutcomes :
       (SettleStep /\ o.kind = "http" /\ ~(o.status \in 200..299)
          /\ UpstreamSettle(q, o))
         => /\ Len(replies') = Len(replies) + 1
            /\ Last(replies').status = o.status
            /\ Last(replies').kind = "error"]_vars

C16_HealthAlwaysOk ==
  [][Len(healthReplies') = Len(healthReplies) + 1
       => Last(healthReplies').status = "ok"]_vars

\* health answered ok with one chat request failed and one in progress
C16_Witness ==
  /\ healthReplies # << >>
  /\ Last(healthReplies).status = "ok"
  /\ \E i \in 1..Len(replies) : replies[i].status = 500
  /\ chatPending # {}

\* ------------------------------------------------------------ C17
\* C17: without the API key the backend never serves: it exits before
\* listening and answers no request on any route.
C17_NoKeyNeverServes ==
  ~apiKeySet => /\ server # "serving"
                /\ nChat = 0
                /\ replies = << >>
                /\ healthReplies = << >>

\* the process exited at startup because the key is absent
C17_Witness ==
  /\ ~apiKeySet
  /\ server = "exited"

\* ------------------------------------------- completion of relay calls
\* the widget when the transport settles every request it was handed:
\* fetch resolves or rejects, so the continuation of getAIResponse runs
LiveSpec ==
  Spec /\ WF_vars(\E r \in requests, o \in Outcomes : Complete(r, o))

\* C21: when the transport settles every request, whatever the outcome,
\* the widget is again and again in a state where no relay call is
\* outstanding, the in-flight flag is cleared and isProcessing is false,
\* so that a session the user has not stopped shows listening and a
\* stopped one idle
C21_AcceptedFinalCompletes ==
  []<>(/\ requests = {}
       /\ ~requestInFlightRef
       /\ ~isProcessing
       /\ SessionState = IF isListening THEN "listening" ELSE "idle")

\* a failed relay call has completed and the session listens again
C21_Witness ==
  /\ fetchCount >= 1
  /\ requests = {}
  /\ spoken # << >>
  /\ IsApology(Last(spoken))
  /\ ~requestInFlightRef
  /\ SessionState = "listening"

\* --------------------------------------------------------------- C22
IsPrefix(s, t) == Len(s) <= Len(t) /\ SubSeq(t, 1, Len(s)) = s

\* C22 as stated: within a session every update of the displayed text by a
\* recognition result or by a relay result extends the text shown before
\* (the "Listening..." placeholder set at start is not counted as transcript)
C22_TranscriptAppendOnly ==
  [][((ResultStep \/ CompletionStep) /\ responseText # ListeningText)
       => IsPrefix(responseText, responseText')]_vars

\* C22 amended: the finalized transcript of a session only grows and every
\* recognition result shows a text that starts with it; a relay result is
\* appended to the text shown before
C22_FinalizedTranscriptAppendOnly ==
  [][/\ ResultStep => /\ IsPrefix(finalsText, finalsText')
                      /\ IsPrefix(finalsText', responseText')
     /\ CompletionStep => IsPrefix(responseText, responseText')]_vars

\* the reply to the final "hello" was appended below the transcript
C22_Witness ==
  /\ session = 1
  /\ finalsText = <<"hello">>
  /\ responseText = <<"hello">> \o AIPrefix \o <<"Hi there">>

\* --------------------------------------------------------------- C23
\* the widget mounted with any of the configured endpoints
EndpointInit ==
  /\ apiKeySet = TRUE
  /\ RelayIdle
  /\ recognitionRef \in {NoRecognition, Recognition}
  /\ apiEndpoint \in Endpoints
  /\ InitialWidget

EndpointSpec == EndpointInit /\ [][Next]_vars

\* C23: the URL of every request the relay call issues has the https scheme
C23_RequestedUrlIsHttps ==
  \A r \in requests : StartsWith(r.url, HttpsScheme)

\* --------------------------------------------------------------- C24
\* widget and backend side by side: each runs from its initial state
\* while the other has not started
LoopNext ==
  \/ RelayIdle /\ Next
  \/ InitialWidget /\ RelayNext

LoopSpec == Init /\ [][LoopNext]_vars

\* C24: the widget issues a network request only when a result is accepted,
\* one per accepted result, and none when a request settles; the backend
\* forwards a message upstream only when it receives a chat request, once,
\* and not again when the upstream fetch settles, whatever the outcome
C24_NothingRetried ==
  [][/\ fetchCount' # fetchCount =>
          /\ ResultStep
          /\ fetchCount' = fetchCount + 1
          /\ \E r \in requests' :
               r.id = fetchCount' /\ requests' = requests \cup {r}
     /\ CompletionStep => fetchCount' = fetchCount
     /\ upstreamCalls' # upstreamCalls =>
          /\ ChatStep
          /\ upstreamCalls' = Append(upstreamCalls, nChat')
     /\ SettleStep => upstreamCalls' = upstreamCalls]_vars

\* the one upstream request of chat request 1 failed and was answered 500
C24_Witness ==
  /\ upstreamCalls = <<1>>
  /\ chatPending = {}
  /\ replies # << >>
  /\ replies[1].id = 1
  /\ replies[1].status = 500

\* --------------------------------------------------------------- C25
\* C25: a final result whose joined transcript is blank starts no request,
\* triggers no speech playback and shows no "AI: " line
C25_BlankFinalIsNoOp ==
  [][\A seg \in SegTexts :
       (ResultStep /\ onresult(seg, TRUE) /\ ShortCircuits(finalsText \o seg))
         => /\ fetchCount' = fetchCount
            /\ requests' = requests
            /\ spoken' = spoken
            /\ synthQueue' = synthQueue
            /\ ~Contains(responseText', "AI: ")]_vars

\* --------------------------------------------------------------- C26
\* C26: the completion of a request of an earlier session leaves the
\* displayed text and the speech playback alone, and leaves the in-flight
\* flag alone while a request of the current session is outstanding
C26_ReplyOnlyAffectsItsSession ==
  [][\A r \in requests \ requests' :
       (CompletionStep /\ r.session # session)
         => /\ responseText' = responseText
            /\ spoken' = spoken
            /\ synthQueue' = synthQueue
            /\ (\E n \in requests' : n.session = session)
                 => requestInFlightRef' = requestInFlightRef]_vars

\* --------------------------------------------------------------- C27
\* C27: between a stop and the next start no relay call is started and no
\* speech playback is triggered
C27_QuietWhileIdle ==
  [][(session >= 1 /\ ~isListening /\ ~isListening')
       => /\ fetchCount' = fetchCount
          /\ spoken' = spoken]_vars

\* --------------------------------------------------------------- C28
\* C28: a relay request is outstanding exactly when isProcessing is true and
\* exactly when the in-flight flag is set
C28_IndicatorsAgreeWithNetwork ==
  /\ requests # {} => isProcessing /\ requestInFlightRef
  /\ requests = {} => ~isProcessing /\ ~requestInFlightRef

\* --------------------------------------------------------------- C29
\* C29: while isProcessing is true neither the button nor the Space bar
\* starts or stops a session
C29_ToggleDisabledWhileProcessing ==
  [][(isProcessing /\ (ClickButton \/ handleKeyDown))
       => UNCHANGED <<isListening, stream, recognitionActive>>]_vars

\* --------------------------------------------------------------- C30
\* C30: a session shown as not listening has no capturing stream, start()
\* never throws for being called on a started recognition, and
\* recognitionActive equals isListening
C30_StartOnlyOnInactiveStream ==
  /\ ~isListening => stream # "capturing"
  /\ "toggleListening" \notin uncaught
  /\ recognitionActive = isListening

\* --------------------------------------------------------------- C31
\* apiEndpoint, systemPrompt or voiceName changes: getAIResponse or
\* speakResponse is a new callback, so the cleanup of the initialization
\* effect stops the recognition held and the effect installs a new one,
\* which nobody has started. e is the endpoint after the change (the same
\* endpoint when systemPrompt or voiceName changed).
ConfigChange(e) ==
  /\ UNCHANGED relay
  /\ mounted
  /\ nConfig < MaxConfig
  /\ nConfig' = nConfig + 1
  /\ apiEndpoint' = e
  /\ IF recognitionRef # NoRecognition
     THEN /\ oldStream' = StopStream
          /\ stopCalls' = 0
          /\ stream' = "inactive"
          /\ finalsText' = << >>
     ELSE UNCHANGED <<oldStream, stopCalls, stream, finalsText>>
  /\ UNCHANGED <<recognitionRef, isListening, isProcessing, responseText,
                 recognitionActive, requestInFlightRef, nResults, session,
                 requests, fetchCount, spoken, uncaught, console, mounted,
                 synthQueue>>

\* the replaced recognition ends after its stop()
OldRecognitionEnd ==
  /\ UNCHANGED relay
  /\ oldStream = "stopping"
  /\ oldStream' = "inactive"
  /\ UNCHANGED <<recognitionRef, isListening, isProcessing, responseText,
                 recognitionActive, requestInFlightRef, stream, finalsText,
                 nResults, session, requests, fetchCount, spoken, uncaught,
                 console, mounted, synthQueue, stopCalls, apiEndpoint,
                 nConfig>>

ConfigNext ==
  \/ Next
  \/ \E e \in Endpoints : ConfigChange(e)
  \/ OldRecognitionEnd

\* the widget whose props change while it is mounted
ConfigSpec == EndpointInit /\ [][ConfigNext]_vars

\* C31: while the mounted widget shows listening, the recognition it holds
\* is capturing, and a recognition that was replaced is not capturing
C31_ListeningMeansCapturing ==
  /\ (mounted /\ isListening) => stream = "capturing"
  /\ oldStream # "capturing"
====
